---- MODULE Spec2Model ----
(***************************************************************************)
(* Verification model of cvxpy/expressions/variable.py: the coefficient    *)
(* matrix upper_tri_to_full(n) and the class Variable (construction, value *)
(* life cycle, grad, canonicalize).                                        *)
(*                                                                         *)
(* Python lists and NumPy/SciPy arrays are 0-indexed: vectors and matrices *)
(* are modelled as functions over 0..k-1; Python lists that are only       *)
(* appended to are sequences.  None is the empty tuple <<>> and a present  *)
(* optional value x is <<x>>.  The float 1.0 is the integer 1.             *)
(***************************************************************************)
EXTENDS Integers, Sequences, FiniteSets, TLC

VARIABLES
    live,          \* the Variable objects constructed so far, in order
    var_id_args,   \* the var_id argument each of them was constructed with
    id_counter,    \* lu.get_id()'s process-wide counter
    get_id_calls,  \* number of calls made to lu.get_id()
    last,          \* outcome of the last operation (what the caller observes)
    tri_n,         \* upper_tri_to_full: the argument n
    packed,        \* a packed upper-triangle vector p of length n(n+1)/2
    coef,          \* <<>> or <<M>>, M the matrix upper_tri_to_full(n) returned
    full           \* <<>> or <<M*p>>

vars == <<live, var_id_args, id_counter, get_id_calls, last, tri_n, packed, coef, full>>

----------------------------------------------------------------------------
(* Bounds *)

MaxN == 3        \* largest matrix width given to upper_tri_to_full
MaxDim == 2      \* largest dimension of a variable shape
MaxVars == 2     \* number of constructions in one process

None == <<>>
Some(x) == <<x>>

----------------------------------------------------------------------------
(* upper_tri_to_full *)

\* AppendPair without the mirrored entry of an off-diagonal pair.
AppendPairNoMirror(n, i, j, count, arrs) ==
    [col_arr |-> Append(arrs.col_arr, count),
     row_arr |-> Append(arrs.row_arr, j*n + i),
     val_arr |-> Append(arrs.val_arr, 1)]

\* AppendPair with the second entry appended for diagonal pairs too.
AppendPairAlwaysTwo(n, i, j, count, arrs) ==
    [col_arr |-> arrs.col_arr \o <<count, count>>,
     row_arr |-> arrs.row_arr \o <<j*n + i, i*n + j>>,
     val_arr |-> arrs.val_arr \o <<1, 1>>]

\* One pass of the inner loop body: the appends made for the pair (i, j)
\* whose packed index is count.
AppendPair(n, i, j, count, arrs) ==
    LET a1 == [col_arr |-> Append(arrs.col_arr, count),
               row_arr |-> Append(arrs.row_arr, j*n + i),
               val_arr |-> Append(arrs.val_arr, 1)]
    IN  IF i # j
        THEN [col_arr |-> Append(a1.col_arr, count),
              row_arr |-> Append(a1.row_arr, i*n + j),
              val_arr |-> Append(a1.val_arr, 1)]
        ELSE a1

\* for i in range(n): for j in range(i, n): ...; count += 1
RECURSIVE UpperTriLoop(_, _, _, _, _)
UpperTriLoop(n, i, j, count, arrs) ==
    IF i >= n THEN arrs
    ELSE IF j >= n THEN UpperTriLoop(n, i + 1, i + 1, count, arrs)
    ELSE UpperTriLoop(n, i, j + 1, count + 1, AppendPair(n, i, j, count, arrs))

RECURSIVE SumAt(_, _, _, _)
\* Sum of the values of the triples k..Len at position (r, c).
SumAt(arrs, r, c, k) ==
    IF k > Len(arrs.val_arr) THEN 0
    ELSE (IF arrs.row_arr[k] = r /\ arrs.col_arr[k] = c
          THEN arrs.val_arr[k] ELSE 0) + SumAt(arrs, r, c, k + 1)

\* sp.coo_matrix((val_arr, (row_arr, col_arr)), shape).tocsc(): the matrix
\* of the given shape whose (r, c) entry is the sum of the values of the
\* triples at (r, c) (duplicate triples are summed by the conversion).
CooToCsc(arrs, shape) ==
    [shape |-> shape,
     data  |-> [rc \in (0..(shape[1]-1)) \X (0..(shape[2]-1)) |->
                   SumAt(arrs, rc[1], rc[2], 1)]]

upper_tri_to_full(n) ==
    LET entries == (n*(n+1)) \div 2
        arrs == UpperTriLoop(n, 0, 0, 0,
                    [col_arr |-> <<>>, row_arr |-> <<>>, val_arr |-> <<>>])
    IN  CooToCsc(arrs, <<n*n, entries>>)

RECURSIVE RowDot(_, _, _, _)
RowDot(mat, p, r, c) ==
    IF c >= mat.shape[2] THEN 0
    ELSE mat.data[<<r, c>>] * p[c] + RowDot(mat, p, r, c + 1)

\* The product M*p of a matrix and a vector.
MatVec(mat, p) == [r \in 0..(mat.shape[1]-1) |-> RowDot(mat, p, r, 0)]

Entries(n) == (n*(n+1)) \div 2

\* Entries of the packed vectors tried: the 0/1 vectors include the unit
\* vectors, which determine a linear map.
PackedValues == {0, 1}

\* The packed vector of the documented scenario, n = 3.
ExamplePacked == [k \in 0..5 |-> k + 1]

----------------------------------------------------------------------------
(* Collaborators of Variable that live outside variable.py *)

\* s.VAR_PREFIX
VAR_PREFIX == "var"

\* lu.get_id(): returns the counter and advances it.
get_id(counter) == [id |-> counter, counter |-> counter + 1]

AttributeNames == {"nonneg", "nonpos", "symmetric", "PSD", "NSD"}
AttributeSets == [AttributeNames -> BOOLEAN]
NoAttributes == [a \in AttributeNames |-> FALSE]
With(a) == [NoAttributes EXCEPT ![a] = TRUE]

IsSquare(shape) == Len(shape) = 2 /\ shape[1] = shape[2]

\* Leaf.__init__(shape, **kwargs): stores shape and attributes; a symmetric,
\* PSD or NSD attribute on a shape that is not a square matrix is rejected.
LeafInit(self, shape, attributes) ==
    IF (attributes["symmetric"] \/ attributes["PSD"] \/ attributes["NSD"])
       /\ ~IsSquare(shape)
    THEN [error |-> "InvalidShapeError", self |-> self]
    ELSE [error |-> "none",
          self  |-> [self EXCEPT !.shape = shape, !.attributes = attributes]]

is_nonneg(self) == self.attributes["nonneg"]
is_nonpos(self) == self.attributes["nonpos"]
is_symmetric(self) ==
    \/ self.attributes["symmetric"]
    \/ self.attributes["PSD"]
    \/ self.attributes["NSD"]

\* Arrays are [shape, data], data the column-major flattening (a sequence).
RECURSIVE Prod(_)
Prod(shape) == IF shape = <<>> THEN 1 ELSE Head(shape) * Prod(Tail(shape))

At(val, i, j) == val.data[j * val.shape[1] + i + 1]

IsSymmetricArray(val) ==
    /\ IsSquare(val.shape)
    /\ \A i, j \in 0..(val.shape[1]-1) : At(val, i, j) = At(val, j, i)

\* Positive semidefiniteness of a symmetric matrix of width at most 2:
\* every principal minor is non-negative.
IsPSDArray(val) ==
    /\ IsSymmetricArray(val)
    /\ \A i \in 0..(val.shape[1]-1) : At(val, i, i) >= 0
    /\ val.shape[1] = 2 =>
          At(val, 0, 0) * At(val, 1, 1) - At(val, 0, 1) * At(val, 1, 0) >= 0

Negated(val) == [val EXCEPT !.data = [k \in DOMAIN val.data |-> 0 - val.data[k]]]

\* Leaf._validate_value(val): the value's shape must be the variable's shape
\* and the value must have the structure the attributes declare.
validate_value(self, val) ==
    LET a == self.attributes
        ok == /\ val.shape = self.shape
              /\ a["nonneg"] => \A k \in DOMAIN val.data : val.data[k] >= 0
              /\ a["nonpos"] => \A k \in DOMAIN val.data : val.data[k] <= 0
              /\ a["symmetric"] => IsSymmetricArray(val)
              /\ a["PSD"] => IsPSDArray(val)
              /\ a["NSD"] => IsPSDArray(Negated(val))
    IN  IF ok THEN [error |-> "none", val |-> val]
        ELSE [error |-> "InvalidValueError", val |-> val]

\* lin_utils: linear-operator nodes and constraints, built as opaque values.
LinOp(type, shape, args, data) ==
    [type |-> type, shape |-> shape, args |-> args, data |-> data]
create_var(shape, var_id) == LinOp("variable", shape, <<>>, Some(var_id))
create_const(value, shape) == LinOp("sparse_const", shape, <<>>, Some(value))
mul_expr(lh_op, rh_op, shape) == LinOp("mul_expr", shape, <<rh_op>>, Some(lh_op))
reshape(operator, shape) == LinOp("reshape", shape, <<operator>>, None)
neg(operator) == LinOp("neg", operator.shape, <<operator>>, None)
create_geq(lh_op) == [type |-> "geq", expr |-> lh_op]
create_leq(lh_op) == [type |-> "leq", expr |-> lh_op]
\* cvxpy.constraints.psd.PSD
PSD(expr) == [type |-> "PSD", expr |-> expr]

\* sp.eye(k).tocsc()
Eye(k) ==
    [shape |-> <<k, k>>,
     data  |-> [rc \in (0..(k-1)) \X (0..(k-1)) |-> IF rc[1] = rc[2] THEN 1 ELSE 0]]

----------------------------------------------------------------------------
(* class Variable *)

\* VariableInit reading the counter instead of calling get_id().
VariableInitPeekId(shape, name, var_id, attributes, counter) ==
    LET id == IF var_id = None THEN counter ELSE var_id[1]
        s1 == [id |-> id,
               name |-> IF name = None THEN <<VAR_PREFIX, id>> ELSE name,
               primal_value |-> None,
               shape |-> <<>>,
               attributes |-> NoAttributes]
        r == LeafInit(s1, shape, attributes)
    IN  [self |-> r.self, error |-> r.error, counter |-> counter, calls |-> 0]

\* VariableInit taking a fresh id even when var_id is given.
VariableInitIgnoreVarId(shape, name, var_id, attributes, counter) ==
    LET g == get_id(counter)
        s1 == [id |-> g.id,
               name |-> IF name = None THEN <<VAR_PREFIX, g.id>> ELSE name,
               primal_value |-> None,
               shape |-> <<>>,
               attributes |-> NoAttributes]
        r == LeafInit(s1, shape, attributes)
    IN  [self |-> r.self, error |-> r.error, counter |-> g.counter, calls |-> 1]

\* Variable.__init__(shape, name, var_id, **kwargs) with the id counter
\* threaded through: the object built, the counter afterwards, the number of
\* get_id() calls made and the error raised, if any.
VariableInit(shape, name, var_id, attributes, counter) ==
    LET g == get_id(counter)
        id == IF var_id = None THEN g.id ELSE var_id[1]
        s1 == [id |-> id,
               name |-> IF name = None THEN <<VAR_PREFIX, id>> ELSE name,
               primal_value |-> None,
               shape |-> <<>>,
               attributes |-> NoAttributes]
        r == LeafInit(s1, shape, attributes)
    IN  [self |-> r.self,
         error |-> r.error,
         counter |-> IF var_id = None THEN g.counter ELSE counter,
         calls |-> IF var_id = None THEN 1 ELSE 0]

\* save_value with the disabled packed-vector expansion switched on.
save_value_expand(self, value) ==
    IF value # None /\ is_symmetric(self)
    THEN LET n == self.shape[1]
             entries == (n*(n+1)) \div 2
             flat == value[1].data
             p == [k \in 0..(entries-1) |-> IF k < Len(flat) THEN flat[k+1] ELSE 0]
             out == MatVec(upper_tri_to_full(n), p)
         IN  [self EXCEPT !.primal_value =
                 Some([shape |-> <<n, n>>, data |-> [k \in 1..(n*n) |-> out[k-1]]])]
    ELSE [self EXCEPT !.primal_value = value]

\* Variable.save_value(value)
save_value(self, value) == [self EXCEPT !.primal_value = value]

\* Variable.value (getter)
value(self) == self.primal_value

\* The setter saving the value before validating it.
value_setter_save_first(self, val) ==
    [self |-> save_value(self, Some(val)), error |-> validate_value(self, val).error]

\* Variable.value (setter)
value_setter(self, val) ==
    LET r == validate_value(self, val)
    IN  IF r.error # "none"
        THEN [self |-> self, error |-> r.error]
        ELSE [self |-> save_value(self, Some(r.val)), error |-> "none"]

\* Variable.grad: {self: sp.eye(shape[0]*shape[1]).tocsc()}; indexing a shape
\* of fewer than two dimensions raises IndexError.
grad(self) ==
    IF Len(self.shape) < 2
    THEN [error |-> "IndexError", keys |-> {}, mat |-> Eye(0)]
    ELSE [error |-> "none", keys |-> {self.id},
          mat |-> Eye(self.shape[1] * self.shape[2])]

\* CanonObj without the final reshape of the expanded term.
CanonObjNoReshape(self) ==
    IF is_symmetric(self)
    THEN LET n == self.shape[1]
             shape == <<(n*(n+1)) \div 2, 1>>
             obj0 == create_var(shape, self.id)
             mat == create_const(upper_tri_to_full(n), <<n*n, shape[1]>>)
         IN  mul_expr(mat, obj0, <<n*n, 1>>)
    ELSE create_var(self.shape, self.id)

\* Variable.canonicalize, first part: the affine term obj.
CanonObj(self) ==
    IF is_symmetric(self)
    THEN LET n == self.shape[1]
             shape == <<(n*(n+1)) \div 2, 1>>
             obj0 == create_var(shape, self.id)
             mat == create_const(upper_tri_to_full(n), <<n*n, shape[1]>>)
             obj1 == mul_expr(mat, obj0, <<n*n, 1>>)
         IN  reshape(obj1, <<n, n>>)
    ELSE create_var(self.shape, self.id)

\* CanonConstr with the NSD constraint built on obj instead of neg(obj).
CanonConstrNoNeg(self, obj) ==
    IF is_nonneg(self) THEN <<create_geq(obj)>>
    ELSE IF is_nonpos(self) THEN <<create_leq(obj)>>
    ELSE IF self.attributes["PSD"] THEN <<PSD(obj)>>
    ELSE IF self.attributes["NSD"] THEN <<PSD(obj)>>
    ELSE <<>>

\* CanonConstr with independent ifs in place of the elif chain.
CanonConstrAll(self, obj) ==
    (IF is_nonneg(self) THEN <<create_geq(obj)>> ELSE <<>>)
    \o (IF is_nonpos(self) THEN <<create_leq(obj)>> ELSE <<>>)
    \o (IF self.attributes["PSD"] THEN <<PSD(obj)>> ELSE <<>>)
    \o (IF self.attributes["NSD"] THEN <<PSD(neg(obj))>> ELSE <<>>)

\* Variable.canonicalize, second part: the constraint list for obj.
CanonConstr(self, obj) ==
    IF is_nonneg(self) THEN <<create_geq(obj)>>
    ELSE IF is_nonpos(self) THEN <<create_leq(obj)>>
    ELSE IF self.attributes["PSD"] THEN <<PSD(obj)>>
    ELSE IF self.attributes["NSD"] THEN <<PSD(neg(obj))>>
    ELSE <<>>

canonicalize(self) ==
    LET obj == CanonObj(self)
    IN  [obj |-> obj, constr |-> CanonConstr(self, obj)]

----------------------------------------------------------------------------
(* Inputs *)

RECURSIVE TuplesOver(_, _)
TuplesOver(S, len) ==
    IF len = 0 THEN {<<>>}
    ELSE {Append(t, x) : t \in TuplesOver(S, len - 1), x \in S}

\* Shapes: scalar, vector and matrix shapes of non-negative dimensions, and
\* the (2, 3) matrix of the documented scenario.
Shapes == UNION {TuplesOver(0..MaxDim, len) : len \in 0..2} \cup {<<2, 3>>}

Array(shape, data) == [shape |-> shape, data |-> data]

\* Values handed to the value setter and to save_value.
ValueArgs ==
    {Array(<<>>, <<1>>), Array(<<>>, <<-1>>),
     Array(<<2>>, <<1, 2>>), Array(<<3>>, <<1, 2, 3>>),
     Array(<<1, 1>>, <<1>>),
     Array(<<2, 2>>, <<1, 0, 0, 1>>), Array(<<2, 2>>, <<-1, 0, 0, -1>>),
     Array(<<2, 2>>, <<1, 2, 2, 1>>), Array(<<2, 2>>, <<1, 2, 3, 4>>)}

\* Constructor arguments tried by the process-level specification.
CtorShapes == {<<>>, <<2, 2>>}
CtorAttributes == {NoAttributes, With("symmetric")}
CtorNames == {None}
CtorVarIds == {None, Some(0)}
CtorValues == {Array(<<2, 2>>, <<1, 2, 3, 4>>)}

----------------------------------------------------------------------------
(* Operations *)

Result(op, k, arg, error, out) ==
    [op |-> op, k |-> k, arg |-> arg, error |-> error, out |-> out]

triVars == <<tri_n, packed, coef, full>>

Construct(shape, name, var_id, attributes) ==
    /\ Len(live) < MaxVars
    /\ var_id = None => id_counter < MaxVars
    /\ LET r == VariableInit(shape, name, var_id, attributes, id_counter)
       IN  /\ id_counter' = r.counter
           /\ get_id_calls' = get_id_calls + r.calls
           /\ IF r.error = "none"
              THEN /\ live' = Append(live, r.self)
                   /\ var_id_args' = Append(var_id_args, var_id)
                   /\ last' = Result("Variable", Len(live) + 1, None, "none", None)
              ELSE /\ UNCHANGED <<live, var_id_args>>
                   /\ last' = Result("Variable", 0, None, r.error, None)
    /\ UNCHANGED triVars

SetValue(k, val) ==
    /\ k \in 1..Len(live)
    /\ LET r == value_setter(live[k], val)
       IN  /\ live' = [live EXCEPT ![k] = r.self]
           /\ last' = Result("value.setter", k, Some(val), r.error, None)
    /\ UNCHANGED <<id_counter, get_id_calls, var_id_args>>
    /\ UNCHANGED triVars

SaveValue(k, v) ==
    /\ k \in 1..Len(live)
    /\ live' = [live EXCEPT ![k] = save_value(live[k], v)]
    /\ last' = Result("save_value", k, v, "none", None)
    /\ UNCHANGED <<id_counter, get_id_calls, var_id_args>>
    /\ UNCHANGED triVars

GetValue(k) ==
    /\ k \in 1..Len(live)
    /\ last' = Result("value", k, None, "none", Some(value(live[k])))
    /\ UNCHANGED <<live, id_counter, get_id_calls, var_id_args>>
    /\ UNCHANGED triVars

Grad(k) ==
    /\ k \in 1..Len(live)
    /\ LET r == grad(live[k])
       IN  last' = Result("grad", k, None, r.error, Some(r))
    /\ UNCHANGED <<live, id_counter, get_id_calls, var_id_args>>
    /\ UNCHANGED triVars

Canonicalize(k) ==
    /\ k \in 1..Len(live)
    /\ last' = Result("canonicalize", k, None, "none", Some(canonicalize(live[k])))
    /\ UNCHANGED <<live, id_counter, get_id_calls, var_id_args>>
    /\ UNCHANGED triVars

NoResult == Result("none", 0, None, "none", None)

TriIdle ==
    /\ tri_n = 0
    /\ packed = <<>>
    /\ coef = None
    /\ full = None

\* A fresh process: no variable constructed yet.
Init ==
    /\ live = <<>>
    /\ var_id_args = <<>>
    /\ id_counter = 0
    /\ get_id_calls = 0
    /\ last = NoResult
    /\ TriIdle

DoConstruct ==
    \E shape \in CtorShapes, name \in CtorNames,
       var_id \in CtorVarIds,
       attributes \in CtorAttributes :
        Construct(shape, name, var_id, attributes)
DoSetValue == \E k \in 1..Len(live), val \in CtorValues : SetValue(k, val)
DoSaveValue ==
    \E k \in 1..Len(live), v \in {None} \cup {Some(x) : x \in CtorValues} :
        SaveValue(k, v)
DoGetValue == \E k \in 1..Len(live) : GetValue(k)
DoGrad == \E k \in 1..Len(live) : Grad(k)
DoCanonicalize == \E k \in 1..Len(live) : Canonicalize(k)

Next ==
    \/ DoConstruct
    \/ DoSetValue
    \/ DoSaveValue
    \/ DoGetValue
    \/ DoGrad
    \/ DoCanonicalize

Spec == Init /\ [][Next]_vars

\* One well-constructed variable: the state after a single successful
\* construction without var_id, for every shape and attribute set.
InitVar ==
    /\ \E shape \in Shapes, attributes \in AttributeSets :
          LET r == VariableInit(shape, None, None, attributes, 0)
          IN  /\ r.error = "none"
              /\ live = <<r.self>>
              /\ id_counter = r.counter
              /\ get_id_calls = r.calls
    /\ var_id_args = <<None>>
    /\ last = NoResult
    /\ TriIdle

VarSetValue == \E val \in ValueArgs : SetValue(1, val)
VarSaveValue == \E v \in {None} \cup {Some(x) : x \in ValueArgs} : SaveValue(1, v)
VarGetValue == GetValue(1)
VarGrad == Grad(1)
VarCanonicalize == Canonicalize(1)

NextVar ==
    \/ VarSetValue
    \/ VarSaveValue
    \/ VarGetValue
    \/ VarGrad
    \/ VarCanonicalize

SpecVar == InitVar /\ [][NextVar]_vars

----------------------------------------------------------------------------
(* upper_tri_to_full applied to packed vectors *)

InitTri ==
    /\ live = <<>>
    /\ var_id_args = <<>>
    /\ id_counter = 0
    /\ get_id_calls = 0
    /\ last = NoResult
    /\ \/ /\ tri_n \in 0..MaxN
          /\ packed \in [0..(Entries(tri_n)-1) -> PackedValues]
       \/ /\ tri_n = 3
          /\ packed = ExamplePacked
    /\ coef = None
    /\ full = None

BuildMap ==
    /\ coef = None
    /\ coef' = Some(upper_tri_to_full(tri_n))
    /\ UNCHANGED <<live, var_id_args, id_counter, get_id_calls, last, tri_n, packed, full>>

Expand ==
    /\ coef # None
    /\ full = None
    /\ full' = Some(MatVec(coef[1], packed))
    /\ UNCHANGED <<live, var_id_args, id_counter, get_id_calls, last, tri_n, packed, coef>>

NextTri == BuildMap \/ Expand

SpecTri == InitTri /\ [][NextTri]_vars

----------------------------------------------------------------------------
(* Properties of upper_tri_to_full *)

\* Packed index of the pair (i, j), i <= j, when the pairs are enumerated
\* row i outer, column j inner.
PackedIndex(n, i, j) == i*n - ((i*(i-1)) \div 2) + (j - i)

Min(a, b) == IF a <= b THEN a ELSE b
Max(a, b) == IF a >= b THEN a ELSE b

\* Column-major flattening of the symmetric matrix A with
\* A[i][j] = A[j][i] = p[index of (i, j)].
SymmetricFlat(n, p) ==
    [k \in 0..(n*n - 1) |->
        LET i == k % n
            j == k \div n
        IN  p[PackedIndex(n, Min(i, j), Max(i, j))]]

ExampleFull == [k \in 0..8 |-> <<1, 2, 3, 2, 4, 5, 3, 5, 6>>[k + 1]]

\* C2: for every n >= 1 and packed vector p, upper_tri_to_full(n) * p is the
\* column-major flattening of the symmetric matrix whose (i,j) and (j,i)
\* entries are p's entry for the pair (i,j); the reshaped result is symmetric,
\* its diagonal is p's diagonal entries in order, and [1,2,3,4,5,6] expands
\* to [1,2,3,2,4,5,3,5,6].
C2_Expansion ==
    (full # None /\ tri_n >= 1) =>
        LET n == tri_n
            out == full[1]
        IN  /\ out = SymmetricFlat(n, packed)
            /\ \A i, j \in 0..(n-1) : out[j*n + i] = out[i*n + j]
            /\ \A i \in 0..(n-1) : out[i*n + i] = packed[PackedIndex(n, i, i)]
            /\ (n = 3 /\ packed = ExamplePacked) => out = ExampleFull

C2_Witness == full # None /\ tri_n = 3 /\ packed = ExamplePacked

NonZerosInColumn(mat, c) ==
    Cardinality({r \in 0..(mat.shape[1]-1) : mat.data[<<r, c>>] # 0})

\* C7: for every n >= 0, upper_tri_to_full(n) has shape (n^2, n(n+1)/2),
\* every nonzero is 1, a column has one nonzero when its packed index is a
\* diagonal pair and two otherwise; n = 0 gives the empty (0,0) map and
\* n = 1 the 1x1 identity.
C7_MapStructure ==
    coef # None =>
        LET n == tri_n
            mat == coef[1]
            diag == {PackedIndex(n, i, i) : i \in 0..(n-1)}
        IN  /\ mat.shape = <<n*n, (n*(n+1)) \div 2>>
            /\ DOMAIN mat.data = (0..(n*n-1)) \X (0..(((n*(n+1)) \div 2)-1))
            /\ \A rc \in DOMAIN mat.data : mat.data[rc] \in {0, 1}
            /\ \A c \in 0..(mat.shape[2]-1) :
                  NonZerosInColumn(mat, c) = IF c \in diag THEN 1 ELSE 2
            /\ n = 0 => mat.shape = <<0, 0>> /\ DOMAIN mat.data = {}
            /\ n = 1 => mat.shape = <<1, 1>> /\ mat.data[<<0, 0>>] = 1

C7_Witness == coef # None /\ tri_n = 2

----------------------------------------------------------------------------
(* Properties of canonicalize and grad *)

SignAttributes == <<"nonneg", "nonpos", "PSD", "NSD">>

\* The sign/structure attributes of a variable that are set.
SignSet(self) == {i \in 1..4 : self.attributes[SignAttributes[i]]}

IsNegOf(term, obj) == term.type = "neg" /\ term.args = <<obj>>

\* The constraint list is the one constraint of kind i (1..4) built on obj.
IsConstraintOfKind(constr, i, obj) ==
    /\ Len(constr) = 1
    /\ constr[1].type = <<"geq", "leq", "PSD", "PSD">>[i]
    /\ IF i = 4 THEN IsNegOf(constr[1].expr, obj) ELSE constr[1].expr = obj

\* C1: with exactly one of nonneg, nonpos, PSD, NSD set, canonicalize returns
\* exactly one constraint of the matching kind built on the returned term obj
\* (NSD: on the negation of obj); with none set the constraint list is empty.
C1_MatchingConstraint ==
    last.op = "canonicalize" =>
        LET self == live[last.k]
            r == last.out[1]
        IN  /\ \A i \in 1..4 :
                  SignSet(self) = {i} => IsConstraintOfKind(r.constr, i, r.obj)
            /\ SignSet(self) = {} => r.constr = <<>>

C1_Witness ==
    /\ last.op = "canonicalize"
    /\ SignSet(live[last.k]) = {4}
    /\ Len(last.out[1].constr) = 1

\* C3: for every combination of the five flags canonicalize returns at most
\* one constraint, chosen by the first of nonneg, nonpos, PSD, NSD that is
\* set; the symmetric flag alone adds none.
C3_FirstMatch ==
    last.op = "canonicalize" =>
        LET self == live[last.k]
            r == last.out[1]
            set == SignSet(self)
        IN  /\ Len(r.constr) <= 1
            /\ set # {} =>
                  \E i \in set : /\ \A m \in set : i <= m
                                 /\ IsConstraintOfKind(r.constr, i, r.obj)
            /\ set = {} => r.constr = <<>>
            /\ (self.attributes["nonneg"] /\ self.attributes["PSD"]) =>
                  /\ Len(r.constr) = 1
                  /\ r.constr[1].type = "geq"

C3_Witness ==
    /\ last.op = "canonicalize"
    /\ live[last.k].attributes["nonneg"]
    /\ live[last.k].attributes["PSD"]
    /\ Len(last.out[1].constr) = 1

\* C6: canonicalize and grad raise no error for any well-constructed
\* variable, whatever its shape (scalar, vector or matrix) and attributes.
C6_NoError ==
    last.op \in {"grad", "canonicalize"} => last.error = "none"

IsLeaf(term, shape, id) ==
    /\ term.type = "variable"
    /\ term.shape = shape
    /\ term.args = <<>>
    /\ term.data = <<id>>

\* C10: for a symmetric variable (flag set, or implied by PSD or NSD) of shape
\* (n,n) the term is reshape(multiply(upper_tri_to_full(n), leaf of shape
\* (n(n+1)/2, 1) with the variable's id), (n,n)); otherwise it is a leaf of
\* the variable's shape with its id; shape (2,3) without attributes gives a
\* (2,3) leaf and no constraints.
C10_TermForm ==
    last.op = "canonicalize" =>
        LET self == live[last.k]
            a == self.attributes
            obj == last.out[1].obj
        IN  IF a["symmetric"] \/ a["PSD"] \/ a["NSD"]
            THEN LET n == self.shape[1]
                 IN  /\ obj.type = "reshape"
                     /\ obj.shape = <<n, n>>
                     /\ Len(obj.args) = 1
                     /\ LET prod == obj.args[1]
                        IN  /\ prod.type = "mul_expr"
                            /\ prod.shape = <<n*n, 1>>
                            /\ Len(prod.args) = 1
                            /\ IsLeaf(prod.args[1], <<(n*(n+1)) \div 2, 1>>, self.id)
                            /\ prod.data[1].type = "sparse_const"
                            /\ prod.data[1].shape = <<n*n, (n*(n+1)) \div 2>>
                            /\ prod.data[1].data = <<upper_tri_to_full(n)>>
            ELSE /\ IsLeaf(obj, self.shape, self.id)
                 /\ (self.shape = <<2, 3>> /\ a = NoAttributes) =>
                        last.out[1].constr = <<>>

C10_Witness ==
    /\ last.op = "canonicalize"
    /\ live[last.k].attributes = With("PSD")
    /\ live[last.k].shape = <<2, 2>>
    /\ last.out[1].obj.type = "reshape"

----------------------------------------------------------------------------
(* Properties of the value life cycle *)

PrimalOf(l, k) == l[k].primal_value

\* C4: a value setter call with a value that validation rejects fails with
\* an error and leaves primal_value as it was before the call.
C4_RejectedKeepsValue ==
    [][(/\ last'.op = "value.setter"
        /\ validate_value(live[last'.k], last'.arg[1]).error # "none")
       => /\ last'.error = "InvalidValueError"
          /\ PrimalOf(live', last'.k) = PrimalOf(live, last'.k)]_vars

C4_Witness ==
    /\ last.op = "value.setter"
    /\ last.error = "InvalidValueError"
    /\ PrimalOf(live, last.k) # None

\* C9: save_value stores its argument unchanged, for every variable; the
\* getter returns the argument of the most recent successful save_value or
\* setter call, and None if there was none since construction.
C9_SaveAndGet ==
    /\ (last.op = "none" => \A k \in 1..Len(live) : PrimalOf(live, k) = None)
    /\ [][/\ last'.op = "save_value" =>
                PrimalOf(live', last'.k) = last'.arg
          /\ (last'.op = "value.setter" /\ last'.error = "none") =>
                PrimalOf(live', last'.k) = last'.arg
          /\ (\/ last'.op \in {"value", "grad", "canonicalize"}
              \/ last'.op = "value.setter" /\ last'.error # "none") =>
                PrimalOf(live', last'.k) = PrimalOf(live, last'.k)
          /\ last'.op = "value" =>
                last'.out = Some(PrimalOf(live, last'.k))]_vars

C9_Witness ==
    /\ last.op = "save_value"
    /\ live[last.k].attributes["symmetric"]
    /\ last.arg = Some(Array(<<3>>, <<1, 2, 3>>))
    /\ PrimalOf(live, last.k) = last.arg

----------------------------------------------------------------------------
(* Properties of the ids *)

\* C5, as stated: no two live variables have the same id, whether or not
\* they were constructed with an explicit id.
C5_AllIdsDistinct ==
    \A a, b \in 1..Len(live) : a # b => live[a].id # live[b].id

\* C5, amended: no two live variables that were both constructed without an
\* explicit id have the same id.
C5_GeneratedIdsDistinct ==
    \A a, b \in 1..Len(live) :
        (a # b /\ var_id_args[a] = None /\ var_id_args[b] = None) =>
            live[a].id # live[b].id

C5_Witness ==
    /\ Len(live) = 2
    /\ var_id_args[1] = None
    /\ var_id_args[2] = None

\* C8: two variables constructed without an explicit id have distinct ids,
\* each the result of one call to the id generator; a variable constructed
\* with an explicit id has exactly that id and the generator is not called.
C8_IdAssignment ==
    /\ [](\A a, b \in 1..Len(live) :
            (a # b /\ var_id_args[a] = None /\ var_id_args[b] = None) =>
                live[a].id # live[b].id)
    /\ [][Len(live') = Len(live) + 1 =>
            LET k == Len(live')
            IN  IF var_id_args'[k] = None
                THEN /\ get_id_calls' = get_id_calls + 1
                     /\ live'[k].id = get_id(id_counter).id
                     /\ id_counter' = get_id(id_counter).counter
                ELSE /\ get_id_calls' = get_id_calls
                     /\ id_counter' = id_counter
                     /\ live'[k].id = var_id_args'[k][1]]_vars

C8_Witness ==
    /\ Len(live) = 2
    /\ var_id_args[1] = None
    /\ var_id_args[2] # None
    /\ live[2].id = var_id_args[2][1]

====
